---- MODULE Spec2Model ----
(***************************************************************************)
(* Model of the image cache of react-native-image-cache                    *)
(* (src/image-cache.js): fetchImage, preloadImages, clearExpiredImage over *)
(* the cache directory (RNFetchBlob.fs), the network (RNFetchBlob.fetch)   *)
(* and the persisted mapping record (AsyncStorage, key 'cache_image').     *)
(*                                                                         *)
(* JavaScript runs each piece of code between two awaits atomically; an    *)
(* I/O operation is issued by one action and completed by another, whose   *)
(* outcome the environment chooses.  Strings are sequences of one-         *)
(* character strings, indexed from 0 by the JS helpers below.              *)
(***************************************************************************)
EXTENDS Integers, Sequences, FiniteSets, TLC

\* ------------------------------------------------------------- bounds
MaxTasks == 2       \* per-URI operations (fetchImage calls and preloadImage tasks)
MaxBatches == 1     \* preloadImages calls
MaxSweeps == 1      \* clearExpiredImage calls
MaxDays == 1        \* the clock stops after this many days
MaxPeriod == 1      \* largest expiredPeriod handed to clearExpiredImage
MaxFaults == 1      \* I/O failures and throwing callbacks in one run
MaxCalls == 3       \* calls of the three exported functions in one run
MaxParts == 5       \* pieces a uri handed to getImageInfo alone is made of
MaxEffects == 3     \* runs of the effect of one CacheImage component

\* ------------------------------------------------------- JS strings
\* String.prototype.indexOf(c): 0-based, -1 when absent
IndexOf(s, c) ==
    IF \E i \in 1..Len(s) : s[i] = c
    THEN (CHOOSE i \in 1..Len(s) : s[i] = c /\ \A j \in 1..(i-1) : s[j] # c) - 1
    ELSE -1

\* String.prototype.lastIndexOf(c): 0-based, -1 when absent
LastIndexOf(s, c) ==
    IF \E i \in 1..Len(s) : s[i] = c
    THEN (CHOOSE i \in 1..Len(s) : s[i] = c /\ \A j \in (i+1)..Len(s) : s[j] # c) - 1
    ELSE -1

Clamp(n, len) == IF n < 0 THEN 0 ELSE IF n > len THEN len ELSE n

\* String.prototype.substring(from, to): arguments clamped to 0..length, swapped when from > to
Substring(s, from, to) ==
    LET a == Clamp(from, Len(s))
        b == Clamp(to, Len(s))
        lo == IF a <= b THEN a ELSE b
        hi == IF a <= b THEN b ELSE a
    IN  SubSeq(s, lo + 1, hi)

\* String.prototype.substring(from)
SubstringFrom(s, from) == Substring(s, from, Len(s))

\* ------------------------------------------------------ the URIs used
Letters == {"a", "b", "e", "f", "g", "h", "i", "j", "n", "p", "t", "x", "G", "N", "P"}
Alphabet == <<"a", "b", "e", "f", "g", "h", "i", "j", "n", "p", "t", "x", "G", "N", "P",
              ":", "/", ".", "?", " ">>
UriA == <<"h", ":", "/", "a", ".", "p", "n", "g">>
UriB == <<"h", ":", "/", "b", ".", "g", "i", "f">>
UriTxt == <<"h", ":", "/", "a", ".", "t", "x", "t">>
UriSpace == <<"h", " ", "/", "a", ".", "p", "n", "g">>
Uris == {UriA, UriB, UriTxt, UriSpace}

\* ------------------------------------------------------ getImageInfo
validImageExtensions ==
    { <<".", "j", "p", "g">>, <<".", "p", "n", "g">>,
      <<".", "j", "p", "e", "g">>, <<".", "g", "i", "f">> }

Undefined == [hash |-> -1, ext |-> <<>>]

\* validUrl.isUri: legal characters only; a scheme (a letter, then letters or
\* dots) closed by the first ':' before any '/' or '?'; and, the authority being
\* empty, a path that does not start with "//"
isUri(uri) ==
    /\ Len(uri) > 0
    /\ \A i \in 1..Len(uri) : uri[i] \in Letters \cup {":", "/", ".", "?"}
    /\ LET colon == IndexOf(uri, ":")
       IN  /\ colon >= 1
           /\ uri[1] \in Letters
           /\ \A i \in 1..colon : uri[i] \in Letters \cup {"."}
           /\ Substring(uri, colon + 1, colon + 5) # <<"/", "/", "/", "/">>

CharCode(c) == CHOOSE i \in 1..Len(Alphabet) : Alphabet[i] = c
HashBase == 31
HashMod == 1000003
RECURSIVE hashFrom(_, _)
hashFrom(s, acc) ==
    IF s = <<>> THEN acc
    ELSE hashFrom(Tail(s), (acc * HashBase + CharCode(Head(s))) % HashMod)
\* hash(uri) of object-hash: a digest of the whole string
hash(uri) == hashFrom(uri, Len(uri))

\* getImageInfo without the check against validImageExtensions
getImageInfoAnyExtension(uri) ==
    IF isUri(uri)
    THEN LET path == SubstringFrom(uri, LastIndexOf(uri, "/"))
             pathName == IF IndexOf(path, "?") = -1
                         THEN path
                         ELSE Substring(path, 0, IndexOf(path, "?"))
         IN  IF LastIndexOf(pathName, ".") >= 0
             THEN [hash |-> hash(uri),
                   ext |-> SubstringFrom(SubstringFrom(pathName, LastIndexOf(pathName, ".")), 1)]
             ELSE Undefined
    ELSE Undefined

\* getImageInfo taking the extension from the whole path, query string included
getImageInfoKeepQuery(uri) ==
    IF isUri(uri)
    THEN LET pathName == SubstringFrom(uri, LastIndexOf(uri, "/"))
         IN  IF LastIndexOf(pathName, ".") >= 0
             THEN LET fileExtension == SubstringFrom(pathName, LastIndexOf(pathName, "."))
                  IN  IF fileExtension \in validImageExtensions
                      THEN [hash |-> hash(uri), ext |-> SubstringFrom(fileExtension, 1)]
                      ELSE Undefined
             ELSE Undefined
    ELSE Undefined

getImageInfo(uri) ==
    IF isUri(uri)
    THEN LET path == SubstringFrom(uri, LastIndexOf(uri, "/"))
             pathName == IF IndexOf(path, "?") = -1
                         THEN path
                         ELSE Substring(path, 0, IndexOf(path, "?"))
         IN  IF LastIndexOf(pathName, ".") >= 0
             THEN LET fileExtension == SubstringFrom(pathName, LastIndexOf(pathName, "."))
                  IN  IF fileExtension \in validImageExtensions
                      THEN [hash |-> hash(uri), ext |-> SubstringFrom(fileExtension, 1)]
                      ELSE Undefined
             ELSE Undefined
    ELSE Undefined

CacheDir == "CacheDir"
generateAbsolutePath(fileInfo) == <<CacheDir, fileInfo>>

Paths == {generateAbsolutePath(getImageInfo(u)) : u \in Uris}


\* ------------------------------------------------ the mapping table
\* a cacheMapping object: its entries in insertion order, one per uri
MsPerDay == 24 * 60 * 60 * 1000
Entry(uri, fileInfo, created) == [uri |-> uri, fileInfo |-> fileInfo, created |-> created]
Keys(m) == {m[i].uri : i \in 1..Len(m)}
Has(m, uri) == uri \in Keys(m)
Get(m, uri) == m[CHOOSE i \in 1..Len(m) : m[i].uri = uri]
\* cacheMapping[uri] = e
Put(m, e) ==
    IF Has(m, e.uri)
    THEN [i \in 1..Len(m) |-> IF m[i].uri = e.uri THEN e ELSE m[i]]
    ELSE Append(m, e)

\* the record stored under CACHE_STORAGE: nothing, text that does not parse, or JSON
NullValue == [tag |-> "null", body |-> <<>>]
CorruptValue == [tag |-> "corrupt", body |-> <<>>]
\* JSON.stringify(cacheMapping); an undefined fileInfo is left out and reads back undefined
Stringify(m) == [tag |-> "json", body |-> m]
\* JSON.parse(value)
Parse(value) == value.body

getCurrentCacheMappingFromAsyncStorage(value) ==
    IF value.tag = "null" THEN <<>>
    ELSE IF value.tag = "corrupt" THEN <<>>
    ELSE Parse(value)

\* calculateDayGap: the quotient (date1 - date2) / MsPerDay, kept as a fraction
calculateDayGap(date1, date2) == [num |-> date1 - date2, den |-> MsPerDay]
\* gap > n
GapGreater(gap, n) == gap.num > n * gap.den
\* if (gap): every number but 0 is true
GapTruthy(gap) == gap.num # 0

\* getImagePath: the path when exists() answered true; undefined when it answered
\* false or threw
NoPath == <<>>
\* getImagePath with the test of isDownloaded inverted
getImagePathInverted(fileInfo, exists) ==
    IF exists = "false" THEN generateAbsolutePath(fileInfo) ELSE NoPath

\* getImagePath taking a probe that threw for a file that is there
getImagePathErrorAsHit(fileInfo, exists) ==
    IF exists \in {"true", "throw"} THEN generateAbsolutePath(fileInfo) ELSE NoPath

getImagePath(fileInfo, exists) ==
    IF exists = "true" THEN generateAbsolutePath(fileInfo) ELSE NoPath

\* ------------------------------------------------------------ state
VARIABLES
    disk,      \* the paths of the cache directory that hold a file
    store,     \* the AsyncStorage record under CACHE_STORAGE
    clock,     \* Date.now()
    tasks,     \* the fetchImage calls and preloadImage tasks
    batches,   \* the preloadImages calls
    sweeps,    \* the clearExpiredImage calls
    unlinks,   \* unlink calls issued and not awaited, per path
    faults,    \* I/O failures and throwing callbacks so far
    call,      \* a call of getImageInfo on its own: its argument and what it returned
    view       \* a CacheImage component: its props, its state and its effects

vars == <<disk, store, clock, tasks, batches, sweeps, unlinks, faults, call, view>>

TaskIds == 1..MaxTasks
BatchIds == 1..MaxBatches
SweepIds == 1..MaxSweeps

IdleTask ==
    [fn |-> "idle", uri |-> <<>>, batch |-> 0, cb |-> "ok", pc |-> "idle",
     status |-> "none", fileInfo |-> Undefined, probe |-> "none", res |-> "none",
     ios |-> {}, value |-> "none", local |-> <<>>, storeFailed |-> FALSE,
     after |-> {}, intactFrom |-> {}, entryAtProbe |-> FALSE, lost |-> FALSE,
     cbArgs |-> <<>>, alone |-> FALSE]

IdleBatch ==
    [pc |-> "idle", status |-> "none", isArray |-> TRUE, hasMap |-> TRUE,
     items |-> <<>>, cb |-> "ok", ios |-> {}, tried |-> 0, downloaded |-> 0,
     local |-> <<>>, storeFailed |-> FALSE]

NoUnlinks == [p \in Paths |-> 0]

IdleSweep ==
    [pc |-> "idle", status |-> "none", expiredPeriod |-> 0, now |-> 0,
     read |-> <<>>, pending |-> NoUnlinks, failed |-> FALSE, local |-> <<>>]

NoCall == [uri |-> <<>>, key |-> Undefined, pc |-> "none"]

\* useState({ uri: "" }): the source a CacheImage shows before any fetch has settled
InitialSource == [uri |-> <<>>]
\* props.localFallbackImage
Fallback == [uri |-> <<"localFallbackImage">>]
\* no component yet
NoView ==
    [mounted |-> FALSE, uri |-> <<>>, hasFallback |-> FALSE, os |-> "ios",
     source |-> InitialSource, effects |-> <<>>]

Init ==
    /\ disk = {}
    /\ store \in {NullValue, CorruptValue}
    /\ clock = 0
    /\ tasks = [i \in TaskIds |-> IdleTask]
    /\ batches = [b \in BatchIds |-> IdleBatch]
    /\ sweeps = [s \in SweepIds |-> IdleSweep]
    /\ unlinks = NoUnlinks
    /\ faults = 0
    /\ call = NoCall
    /\ view = NoView

PathOf(t) == generateAbsolutePath(t.fileInfo)
Settled(ts) == {i \in TaskIds : ts[i].status \in {"resolved", "rejected"}}
IdleIds(ts) == {i \in TaskIds : ts[i].pc = "idle"}
\* the n-th idle slot
RECURSIVE NthIdle(_, _)
NthIdle(ids, n) ==
    LET m == CHOOSE i \in ids : \A j \in ids : i <= j
    IN  IF n = 1 THEN m ELSE NthIdle(ids \ {m}, n - 1)

\* a successful delete of path p: the calls that had resolved with it lose their file
MarkLost(ts, p) ==
    [i \in TaskIds |->
        IF ts[i].status = "resolved" /\ PathOf(ts[i]) = p
        THEN [ts[i] EXCEPT !.lost = TRUE] ELSE ts[i]]

\* RNFetchBlob.fs.unlink(path) called and not awaited
IssueUnlink(u, p, n) == [u EXCEPT ![p] = @ + n]

\* the environment fails an operation (or hands in a callback that throws) only
\* while the budget lasts
Fault(failed) ==
    /\ failed => faults < MaxFaults
    /\ faults' = IF failed THEN faults + 1 ELSE faults

\* the calls made so far of fetchImage, preloadImages and clearExpiredImage
Calls ==
    Cardinality({i \in TaskIds : tasks[i].fn = "fetchImage"})
    + Cardinality({b \in BatchIds : batches[b].pc # "idle"})
    + Cardinality({s \in SweepIds : sweeps[s].pc # "idle"})

\* every call made so far has run to its end (unlinks nobody awaits may be left)
NothingRunning ==
    /\ \A i \in TaskIds : tasks[i].pc \in {"idle", "done"}
    /\ \A b \in BatchIds : batches[b].pc \in {"idle", "done"}
    /\ \A s \in SweepIds : sweeps[s].pc \in {"idle", "done"}
\* another call starts: the calls still running no longer run alone
Overlap(ts) ==
    [i \in TaskIds |->
        IF ts[i].pc \in {"idle", "done"} THEN ts[i] ELSE [ts[i] EXCEPT !.alone = FALSE]]

\* ------------------------------------------- fetchImage / preloadImage
\* The code both functions run up to their first await: derive the key, reject a
\* wrong format (no unlink: fileInfo is undefined), else start the existence probe.
StartTask(fn, uri, cb, batch, ts) ==
    LET fileInfo == getImageInfo(uri)
        t == [IdleTask EXCEPT !.fn = fn, !.uri = uri, !.cb = cb, !.batch = batch,
                              !.fileInfo = fileInfo, !.after = Settled(ts)]
    IN  IF fileInfo = Undefined
        THEN [t EXCEPT !.pc = "done", !.status = "rejected"]
        ELSE [t EXCEPT !.pc = "probe", !.status = "pending", !.ios = {"exists"}]

\* ------------------------------------------------- preloadImages join
BatchTasks(ts, b) == {i \in TaskIds : ts[i].batch = b}
\* Join over tasks whose rejection is not caught: Promise.all rejects at the first
\* failure and the batch goes on
JoinFailFast(ts, bs) ==
    [b \in BatchIds |->
        IF /\ bs[b].pc = "join"
           /\ \/ \A i \in BatchTasks(ts, b) : ts[i].status # "pending"
              \/ \E i \in BatchTasks(ts, b) : ts[i].status = "rejected"
        THEN [bs[b] EXCEPT !.pc = "getItem", !.ios = @ \cup {"getItem"}]
        ELSE bs[b]]

\* await downloadImages(...): Promise.all over tasks that never reject resumes the
\* batch, in the same turn of the event loop in which its last task settles, and
\* the batch then calls AsyncStorage.getItem
Join(ts, bs) ==
    [b \in BatchIds |->
        IF bs[b].pc = "join" /\ \A i \in BatchTasks(ts, b) : ts[i].status # "pending"
        THEN [bs[b] EXCEPT !.pc = "getItem", !.ios = @ \cup {"getItem"}]
        ELSE bs[b]]

\* the catch block without its reject(e): the promise is left pending
CatchWithoutReject(t, n) ==
    [task |-> [t EXCEPT !.pc = "done", !.ios = @ \cup {"unlink"}],
     unlink |-> n + 1]

\* the catch block of fetchImage / preloadImage: unlink (not awaited), then reject;
\* n counts the unlinks the code issued before it threw
Catch(t, n) ==
    [task |-> [t EXCEPT !.pc = "done", !.status = "rejected", !.ios = @ \cup {"unlink"}],
     unlink |-> n + 1]

\* the object literal {uri, imagePath}
UriImagePath(t) == [uri |-> t.uri, imagePath |-> PathOf(t)]
\* the object literal {uriMapObject} that preloadImage hands over after a download
Wrapped(t) == [uriMapObject |-> UriImagePath(t)]

\* callback(arg); resolve(...): the callback receives arg, and one that throws
\* lands in the catch block
Deliver(t, arg, next) ==
    IF t.cb = "throws"
    THEN Catch([t EXCEPT !.cbArgs = Append(@, arg)], 0)
    ELSE [task |-> [next EXCEPT !.cbArgs = Append(@, arg)], unlink |-> 0]

\* AfterProbe taking the mapping table, not the probe, as the authority for a hit
AfterProbeByTable(t, exists) ==
    IF Has(getCurrentCacheMappingFromAsyncStorage(store), t.uri)
    THEN Deliver(t, UriImagePath(t),
                 [t EXCEPT !.pc = "done", !.status = "resolved", !.value = "path"])
    ELSE [task |-> [t EXCEPT !.pc = "fetch", !.ios = @ \cup {"fetch"}], unlink |-> 0]

\* after `await getImagePath(fileInfo)`
AfterProbe(t, exists) ==
    LET imagePath == getImagePath(t.fileInfo, exists)
    IN  IF imagePath # NoPath
        THEN Deliver(t, UriImagePath(t),
                 [t EXCEPT !.pc = "done", !.status = "resolved", !.value = "path"])
        ELSE [task |-> [t EXCEPT !.pc = "fetch", !.ios = @ \cup {"fetch"}], unlink |-> 0]

\* after `await RNFetchBlob.config(...).fetch('GET', uri)`: res is the status, or
\* "error" when the fetch itself rejected
AfterFetch(t, res) ==
    IF res = "200"
    THEN IF t.fn = "fetchImage"
         THEN \* resolve, then updateCacheMapping(...) starts with a getItem
              Deliver(t, UriImagePath(t),
                      [t EXCEPT !.pc = "getItem", !.status = "resolved",
                                !.value = "path", !.ios = @ \cup {"getItem"}])
         ELSE Deliver(t, Wrapped(t),
                      [t EXCEPT !.pc = "done", !.status = "resolved", !.value = "info"])
    ELSE IF res = "error"
    THEN Catch(t, 0)
    ELSE \* throwErrorOnInCompletedImageFetch: res.flush() unlinks the file, then throws
         Catch(t, 1)

FetchImage(uri, cb) ==
    /\ Calls < MaxCalls
    /\ Fault(cb = "throws")
    /\ IdleIds(tasks) # {}
    /\ tasks' = [Overlap(tasks) EXCEPT ![NthIdle(IdleIds(tasks), 1)] =
                    [StartTask("fetchImage", uri, cb, 0, tasks)
                        EXCEPT !.alone = NothingRunning]]
    /\ UNCHANGED <<disk, store, clock, batches, sweeps, unlinks, call, view>>

\* RNFetchBlob.fs.exists answers (or throws)
ProbeDone(i, exists) ==
    /\ Fault(exists = "throw")
    /\ tasks[i].pc = "probe"
    /\ exists = "true" => PathOf(tasks[i]) \in disk
    /\ exists = "false" => PathOf(tasks[i]) \notin disk
    /\ LET t0 == [tasks[i] EXCEPT
                    !.probe = exists,
                    !.entryAtProbe =
                        Has(getCurrentCacheMappingFromAsyncStorage(store), tasks[i].uri),
                    !.intactFrom =
                        {j \in TaskIds : /\ tasks[j].status = "resolved"
                                         /\ PathOf(tasks[j]) = PathOf(tasks[i])
                                         /\ ~tasks[j].lost}]
           r == AfterProbe(t0, exists)
           ts == [tasks EXCEPT ![i] = r.task]
       IN  /\ tasks' = ts
           /\ unlinks' = IssueUnlink(unlinks, PathOf(tasks[i]), r.unlink)
           /\ batches' = Join(ts, batches)
    /\ UNCHANGED <<disk, store, clock, sweeps, call, view>>

\* the download ends: a response (status 200 or not) has its body at the path; a
\* transport error may leave bytes there
FetchDone(i, res, wrote) ==
    /\ tasks[i].pc = "fetch"
    /\ res # "error" => wrote
    /\ LET r == AfterFetch([tasks[i] EXCEPT !.res = res], res)
           ts == [tasks EXCEPT ![i] = r.task]
       IN  /\ tasks' = ts
           /\ unlinks' = IssueUnlink(unlinks, PathOf(tasks[i]), r.unlink)
           /\ batches' = Join(ts, batches)
    /\ disk' = IF wrote THEN disk \cup {PathOf(tasks[i])} ELSE disk
    /\ UNCHANGED <<store, clock, sweeps, faults, call, view>>

\* AfterGetItem starting from an empty table instead of the table it read
AfterGetItemFromEmpty(t, value, now) ==
    LET cacheMapping == getCurrentCacheMappingFromAsyncStorage(value)
    IN  IF Has(cacheMapping, t.uri)
        THEN [t EXCEPT !.pc = "done"]
        ELSE [t EXCEPT !.pc = "setItem", !.ios = @ \cup {"setItem"},
                       !.local = Put(<<>>, Entry(t.uri, t.fileInfo, now))]

\* updateCacheMapping after getCurrentCacheMappingFromAsyncStorage()
AfterGetItem(t, value, now) ==
    LET cacheMapping == getCurrentCacheMappingFromAsyncStorage(value)
    IN  IF Has(cacheMapping, t.uri)
        THEN [t EXCEPT !.pc = "done"]
        ELSE [t EXCEPT !.pc = "setItem", !.ios = @ \cup {"setItem"},
                       !.local = Put(cacheMapping, Entry(t.uri, t.fileInfo, now))]

\* AsyncStorage.getItem of updateCacheMapping answers; a rejection is logged
TaskGetItemDone(i, ok) ==
    /\ Fault(~ok)
    /\ tasks[i].pc = "getItem"
    /\ tasks' = [tasks EXCEPT ![i] =
                    IF ok THEN AfterGetItem(@, store, clock)
                    ELSE [@ EXCEPT !.pc = "done", !.storeFailed = TRUE]]
    /\ UNCHANGED <<disk, store, clock, batches, sweeps, unlinks, call, view>>

\* AsyncStorage.setItem of updateCacheMapping answers; a rejection is logged
TaskSetItemDone(i, ok) ==
    /\ Fault(~ok)
    /\ tasks[i].pc = "setItem"
    /\ store' = IF ok THEN Stringify(tasks[i].local) ELSE store
    /\ tasks' = [tasks EXCEPT ![i] = [@ EXCEPT !.pc = "done", !.storeFailed = ~ok]]
    /\ UNCHANGED <<disk, clock, batches, sweeps, unlinks, call, view>>

\* an unlink that nobody awaits runs; a failure is logged ('cannot unlink')
UnlinkRun(p, ok) ==
    /\ Fault(~ok)
    /\ unlinks[p] > 0
    /\ unlinks' = [unlinks EXCEPT ![p] = @ - 1]
    /\ disk' = IF ok THEN disk \ {p} ELSE disk
    /\ tasks' = IF ok THEN MarkLost(tasks, p) ELSE tasks
    /\ UNCHANGED <<store, clock, batches, sweeps, call, view>>

\* ------------------------------------------------------ preloadImages
\* the arrays handed to preloadImages: empty, one good or bad uri, the same uri
\* twice, two uris, a good and a bad uri
Arrays == {<<>>, <<UriA>>, <<UriTxt>>, <<UriA, UriA>>, <<UriA, UriB>>, <<UriA, UriTxt>>}
\* the values that are not arrays: one without a map method (null, a string, a
\* number), and an array-like collection of one uri that has a map method
NonArrays == {[hasMap |-> FALSE, items |-> <<>>], [hasMap |-> TRUE, items |-> <<UriA>>]}

RECURSIVE Spawn(_, _, _, _)
\* uris.map(loadImage): one preloadImage per element, each run up to its first await
Spawn(ts, items, cb, b) ==
    IF items = <<>> THEN ts
    ELSE Spawn([ts EXCEPT ![NthIdle(IdleIds(ts), 1)] =
                    StartTask("preloadImage", Head(items), cb, b, ts)],
               Tail(items), cb, b)

\* preloadImages up to its first await.  A value that is not an array is rejected
\* and the code goes on: uris.map throws a TypeError when the value has no map
\* method (the catch block rejects again, to no effect), and maps it otherwise.
PreloadImages(isArray, hasMap, items, cb) ==
    /\ Calls < MaxCalls
    /\ Fault(cb = "throws")
    /\ \E b \in BatchIds : batches[b].pc = "idle"
    /\ Cardinality(IdleIds(tasks)) >= Len(items)
    /\ LET b == CHOOSE x \in BatchIds : batches[x].pc = "idle"
           b0 == [IdleBatch EXCEPT !.isArray = isArray, !.hasMap = hasMap,
                                   !.items = items, !.cb = cb,
                                   !.status = IF isArray THEN "pending" ELSE "rejected"]
       IN  IF hasMap
           THEN LET ts == Spawn(Overlap(tasks), items, cb, b)
                IN  /\ tasks' = ts
                    /\ batches' = Join(ts, [batches EXCEPT ![b] = [b0 EXCEPT !.pc = "join"]])
           ELSE /\ tasks' = Overlap(tasks)
                /\ batches' = [batches EXCEPT ![b] =
                                  [b0 EXCEPT !.pc = "done", !.status = "rejected"]]
    /\ UNCHANGED <<disk, store, clock, sweeps, unlinks, call, view>>

\* r.fileInfo of a response: preloadImage resolves {uri, imagePath} on a hit
\* and {uri, fileInfo} after a download
ResponseFileInfo(t) == IF t.value = "info" THEN t.fileInfo ELSE Undefined

RECURSIVE Merge(_, _, _, _)
\* responses.forEach: cacheMapping[r.uri] = {created: current, fileInfo: r.fileInfo}
Merge(m, ts, ids, current) ==
    IF ids = {} THEN m
    ELSE LET i == CHOOSE x \in ids : \A y \in ids : x <= y
         IN  Merge(Put(m, Entry(ts[i].uri, ResponseFileInfo(ts[i]), current)),
                   ts, ids \ {i}, current)

\* the responses that are not undefined
Responses(ts, b) == {i \in BatchTasks(ts, b) : ts[i].status = "resolved"}

\* preloadImages after its getItem: merge, count, setItem (not awaited), resolve
AfterBatchGetItem(bt, ts, b, value, current) ==
    [bt EXCEPT !.pc = "setItem", !.ios = @ \cup {"setItem"},
               !.status = IF @ = "rejected" THEN "rejected" ELSE "resolved",
               !.tried = Len(bt.items),
               !.downloaded = Cardinality(Responses(ts, b)),
               !.local = Merge(getCurrentCacheMappingFromAsyncStorage(value),
                               ts, Responses(ts, b), current)]

\* the batch's getItem answers; a rejection reaches `return reject(error)`
BatchGetItemDone(b, ok) ==
    /\ Fault(~ok)
    /\ batches[b].pc = "getItem"
    /\ batches' = [batches EXCEPT ![b] =
                      IF ok THEN AfterBatchGetItem(@, tasks, b, store, clock)
                      ELSE [@ EXCEPT !.pc = "done", !.status = "rejected",
                                     !.storeFailed = TRUE]]
    /\ UNCHANGED <<disk, store, clock, tasks, sweeps, unlinks, call, view>>

\* the batch's setItem answers; nobody handles a rejection
BatchSetItemDone(b, ok) ==
    /\ Fault(~ok)
    /\ batches[b].pc = "setItem"
    /\ store' = IF ok THEN Stringify(batches[b].local) ELSE store
    /\ batches' = [batches EXCEPT ![b] = [@ EXCEPT !.pc = "done"]]
    /\ UNCHANGED <<disk, clock, tasks, sweeps, unlinks, call, view>>

\* -------------------------------------------------- clearExpiredImage
Expired(e, now, expiredPeriod) ==
    GapGreater(calculateDayGap(now, e.created), expiredPeriod)

\* Object.values(cacheMapping).map(deleteExpiredImage): the unlinks issued, per path
deleteExpiredImage(m, now, expiredPeriod) ==
    [p \in Paths |->
        Cardinality({i \in 1..Len(m) : /\ generateAbsolutePath(m[i].fileInfo) = p
                                       /\ Expired(m[i], now, expiredPeriod)})]

Stays(now, e) == ~GapTruthy(calculateDayGap(now, e.created))
\* the forEach of the then-callback: if (calculateDayGap(now, created)) delete
DeleteEntries(m, now) == SelectSeq(m, LAMBDA e : Stays(now, e))

\* the then-callback of Promise.all: drop entries, setItem
ThenCallback(sw) ==
    [sw EXCEPT !.pc = "setItem", !.local = DeleteEntries(sw.read, sw.now)]

\* Promise.all(...) over the unlinks: the then-callback runs when all have
\* succeeded; after a failure nothing settles the promise
AfterUnlinks(sw) ==
    IF \E p \in Paths : sw.pending[p] > 0 THEN sw
    ELSE IF sw.failed THEN [sw EXCEPT !.pc = "done"]
    ELSE ThenCallback(sw)

\* clearExpiredImage after `await AsyncStorage.getItem(CACHE_STORAGE)`
AfterSweepGetItem(sw, value, now) ==
    IF value.tag = "null" THEN [sw EXCEPT !.pc = "done"]
    ELSE IF value.tag = "corrupt" THEN [sw EXCEPT !.pc = "done", !.status = "rejected"]
    ELSE AfterUnlinks([sw EXCEPT !.pc = "unlink", !.now = now, !.read = Parse(value),
                                 !.pending = deleteExpiredImage(Parse(value), now,
                                                                sw.expiredPeriod)])

ClearExpiredImage(expiredPeriod) ==
    /\ Calls < MaxCalls
    /\ \E s \in SweepIds : sweeps[s].pc = "idle"
    /\ LET s == CHOOSE x \in SweepIds : sweeps[x].pc = "idle"
       IN  sweeps' = [sweeps EXCEPT ![s] =
                         [IdleSweep EXCEPT !.pc = "getItem", !.status = "pending",
                                           !.expiredPeriod = expiredPeriod]]
    /\ tasks' = Overlap(tasks)
    /\ UNCHANGED <<disk, store, clock, batches, unlinks, faults, call, view>>

SweepGetItemDone(s, ok) ==
    /\ Fault(~ok)
    /\ sweeps[s].pc = "getItem"
    /\ sweeps' = [sweeps EXCEPT ![s] =
                     IF ok THEN AfterSweepGetItem(@, store, clock)
                     ELSE [@ EXCEPT !.pc = "done", !.status = "rejected"]]
    /\ UNCHANGED <<disk, store, clock, tasks, batches, unlinks, call, view>>

\* one of the sweep's unlinks answers
SweepUnlinkDone(s, p, ok) ==
    /\ Fault(~ok)
    /\ sweeps[s].pc = "unlink"
    /\ sweeps[s].pending[p] > 0
    /\ sweeps' = [sweeps EXCEPT ![s] =
                     AfterUnlinks([@ EXCEPT !.pending[p] = @ - 1,
                                            !.failed = @ \/ ~ok])]
    /\ disk' = IF ok THEN disk \ {p} ELSE disk
    /\ tasks' = IF ok THEN MarkLost(tasks, p) ELSE tasks
    /\ UNCHANGED <<store, clock, batches, unlinks, call, view>>

\* the sweep's setItem answers: resolve, or reject
SweepSetItemDone(s, ok) ==
    /\ Fault(~ok)
    /\ sweeps[s].pc = "setItem"
    /\ store' = IF ok THEN Stringify(sweeps[s].local) ELSE store
    /\ sweeps' = [sweeps EXCEPT ![s] =
                     [@ EXCEPT !.pc = "done",
                               !.status = IF ok THEN "resolved" ELSE "rejected"]]
    /\ UNCHANGED <<disk, clock, tasks, batches, unlinks, call, view>>

\* a day passes; the code reads the clock only to stamp entries and to take
\* differences with stamps, so time is let run from the first stamp on
Tick ==
    /\ clock < MaxDays * MsPerDay
    /\ \/ store.tag = "json"
       \/ \E i \in TaskIds : tasks[i].pc = "setItem"
       \/ \E b \in BatchIds : batches[b].pc = "setItem"
    /\ clock' = clock + MsPerDay
    /\ UNCHANGED <<disk, store, tasks, batches, sweeps, unlinks, faults, call, view>>

Next ==
    \/ \E uri \in Uris, cb \in {"ok", "throws"} : FetchImage(uri, cb)
    \/ \E i \in TaskIds, exists \in {"true", "false", "throw"} : ProbeDone(i, exists)
    \/ \E i \in TaskIds, res \in {"200", "500", "error"}, wrote \in BOOLEAN :
          FetchDone(i, res, wrote)
    \/ \E i \in TaskIds, ok \in BOOLEAN : TaskGetItemDone(i, ok)
    \/ \E i \in TaskIds, ok \in BOOLEAN : TaskSetItemDone(i, ok)
    \/ \E p \in Paths, ok \in BOOLEAN : UnlinkRun(p, ok)
    \/ \E items \in Arrays, cb \in {"ok", "throws"} : PreloadImages(TRUE, TRUE, items, cb)
    \/ \E v \in NonArrays : PreloadImages(FALSE, v.hasMap, v.items, "ok")
    \/ \E b \in BatchIds, ok \in BOOLEAN : BatchGetItemDone(b, ok)
    \/ \E b \in BatchIds, ok \in BOOLEAN : BatchSetItemDone(b, ok)
    \/ \E expiredPeriod \in 0..MaxPeriod : ClearExpiredImage(expiredPeriod)
    \/ \E s \in SweepIds, ok \in BOOLEAN : SweepGetItemDone(s, ok)
    \/ \E s \in SweepIds, p \in Paths, ok \in BOOLEAN : SweepUnlinkDone(s, p, ok)
    \/ \E s \in SweepIds, ok \in BOOLEAN : SweepSetItemDone(s, ok)
    \/ Tick

Spec == Init /\ [][Next]_vars

\* every probe, fetch, read and write of the record that was issued is answered,
\* with success or with failure
IoCompletes ==
    /\ \A i \in TaskIds :
          /\ WF_vars(\E exists \in {"true", "false", "throw"} : ProbeDone(i, exists))
          /\ WF_vars(\E res \in {"200", "500", "error"}, wrote \in BOOLEAN :
                        FetchDone(i, res, wrote))
          /\ WF_vars(\E ok \in BOOLEAN : TaskGetItemDone(i, ok))
          /\ WF_vars(\E ok \in BOOLEAN : TaskSetItemDone(i, ok))
    /\ \A b \in BatchIds :
          /\ WF_vars(\E ok \in BOOLEAN : BatchGetItemDone(b, ok))
          /\ WF_vars(\E ok \in BOOLEAN : BatchSetItemDone(b, ok))

\* fetchImage and preloadImages without clearExpiredImage (and so without the
\* clock, which only the sweep reads)
CallsNext ==
    \/ \E uri \in Uris, cb \in {"ok", "throws"} : FetchImage(uri, cb)
    \/ \E i \in TaskIds, exists \in {"true", "false", "throw"} : ProbeDone(i, exists)
    \/ \E i \in TaskIds, res \in {"200", "500", "error"}, wrote \in BOOLEAN :
          FetchDone(i, res, wrote)
    \/ \E i \in TaskIds, ok \in BOOLEAN : TaskGetItemDone(i, ok)
    \/ \E i \in TaskIds, ok \in BOOLEAN : TaskSetItemDone(i, ok)
    \/ \E p \in Paths, ok \in BOOLEAN : UnlinkRun(p, ok)
    \/ \E items \in Arrays, cb \in {"ok", "throws"} : PreloadImages(TRUE, TRUE, items, cb)
    \/ \E v \in NonArrays : PreloadImages(FALSE, v.hasMap, v.items, "ok")
    \/ \E b \in BatchIds, ok \in BOOLEAN : BatchGetItemDone(b, ok)
    \/ \E b \in BatchIds, ok \in BOOLEAN : BatchSetItemDone(b, ok)

FairSpec == Init /\ [][CallsNext]_vars /\ IoCompletes

\* ------------------------------------------- getImageInfo on its own
\* the pieces the uris handed to getImageInfo are put together from
Parts ==
    { <<"h", ":">>, <<"/">>, <<"a">>, <<".">>, <<"?">>, <<" ">>,
      <<".", "p", "n", "g">>, <<".", "j", "p", "g">>, <<".", "j", "p", "e", "g">>,
      <<".", "g", "i", "f">>, <<".", "P", "N", "G">> }
RECURSIVE Concat(_)
Concat(ps) == IF ps = <<>> THEN <<>> ELSE Head(ps) \o Concat(Tail(ps))

KeyInit ==
    /\ disk = {}
    /\ store = NullValue
    /\ clock = 0
    /\ tasks = [i \in TaskIds |-> IdleTask]
    /\ batches = [b \in BatchIds |-> IdleBatch]
    /\ sweeps = [s \in SweepIds |-> IdleSweep]
    /\ unlinks = NoUnlinks
    /\ faults = 0
    /\ \E n \in 0..MaxParts : \E ps \in [1..n -> Parts] :
          call = [uri |-> Concat(ps), key |-> Undefined, pc |-> "call"]
    /\ view = NoView

GetImageInfo ==
    /\ call.pc = "call"
    /\ call' = [call EXCEPT !.key = getImageInfo(call.uri), !.pc = "return"]
    /\ UNCHANGED <<disk, store, clock, tasks, batches, sweeps, unlinks, faults, view>>

KeyNext == GetImageInfo

KeySpec == KeyInit /\ [][KeyNext]_vars

\* ------------------------------------------------ the CacheImage component
\* the object handed to setSource after a fetch that resolved with imagePath
SourceOf(os, imagePath) ==
    [uri |-> <<IF os = "android" THEN "file://" ELSE "", imagePath>>]

\* useEffect(..., [props.uri]) runs: the cleanup of the effect before it sets that
\* effect's isMounted to false, then isMounted = true and fetchImage(props.uri)
RunEffect(v, uri) ==
    LET n == Len(v.effects)
        cleaned == [k \in 1..n |->
                       IF k = n THEN [v.effects[k] EXCEPT !.isMounted = FALSE]
                       ELSE v.effects[k]]
    IN  [v EXCEPT !.uri = uri,
                  !.effects = Append(cleaned, [uri |-> uri, isMounted |-> TRUE,
                                               status |-> "pending"])]

\* the component is rendered for the first time
Mount(uri, hasFallback, os) ==
    /\ ~view.mounted /\ view.effects = <<>>
    /\ view' = RunEffect([NoView EXCEPT !.mounted = TRUE, !.hasFallback = hasFallback,
                                        !.os = os], uri)
    /\ UNCHANGED <<disk, store, clock, tasks, batches, sweeps, unlinks, faults, call>>

\* the component is rendered again with another uri
ChangeUri(uri) ==
    /\ view.mounted /\ uri # view.uri
    /\ Len(view.effects) < MaxEffects
    /\ view' = RunEffect(view, uri)
    /\ UNCHANGED <<disk, store, clock, tasks, batches, sweeps, unlinks, faults, call>>

\* the component is removed: the cleanup of its last effect runs
Unmount ==
    /\ view.mounted
    /\ view' = [view EXCEPT !.mounted = FALSE,
                             !.effects[Len(view.effects)].isMounted = FALSE]
    /\ UNCHANGED <<disk, store, clock, tasks, batches, sweeps, unlinks, faults, call>>

\* the fetchImage of effect k settles (a uri without key can only be rejected); the
\* then-callback sets the source when the effect's isMounted is true, the
\* catch-callback sets the fallback when there is one; React drops a state update
\* of a component that is no longer mounted
FetchSettles(k, ok) ==
    /\ k \in 1..Len(view.effects)
    /\ view.effects[k].status = "pending"
    /\ ok => getImageInfo(view.effects[k].uri) # Undefined
    /\ LET e == view.effects[k]
           imagePath == generateAbsolutePath(getImageInfo(e.uri))
           set == IF ok THEN e.isMounted ELSE view.hasFallback
           value == IF ok THEN SourceOf(view.os, imagePath) ELSE Fallback
       IN  view' = [view EXCEPT
                       !.effects[k].status = IF ok THEN "resolved" ELSE "rejected",
                       !.source = IF set /\ view.mounted THEN value ELSE @]
    /\ UNCHANGED <<disk, store, clock, tasks, batches, sweeps, unlinks, faults, call>>

ViewNext ==
    \/ \E uri \in Uris, hasFallback \in BOOLEAN, os \in {"android", "ios"} :
          Mount(uri, hasFallback, os)
    \/ \E uri \in Uris : ChangeUri(uri)
    \/ Unmount
    \/ \E k \in 1..MaxEffects, ok \in BOOLEAN : FetchSettles(k, ok)

ViewSpec == Init /\ [][ViewNext]_vars

\* ================================================================ claims
Fetched(t) == "fetch" \in t.ios
FetchCalls == {i \in TaskIds : tasks[i].fn = "fetchImage"}

\* s ends with suffix
EndsWith(s, suffix) ==
    /\ Len(s) >= Len(suffix)
    /\ SubSeq(s, Len(s) - Len(suffix) + 1, Len(s)) = suffix
\* the last path segment of uri, query string stripped
LastSegment(uri) ==
    LET from == CHOOSE i \in 0..Len(uri) :
                    /\ i > 0 => uri[i] = "/"
                    /\ \A j \in (i+1)..Len(uri) : uri[j] # "/"
        seg == SubSeq(uri, from + 1, Len(uri))
        cut == {i \in 1..Len(seg) : seg[i] = "?"}
    IN  IF cut = {} THEN seg
        ELSE SubSeq(seg, 1, (CHOOSE i \in cut : \A j \in cut : i <= j) - 1)
\* the uri fails validation or its last segment has no recognized image extension
BadUri(uri) ==
    \/ ~isUri(uri)
    \/ ~\E ext \in validImageExtensions : EndsWith(LastSegment(uri), ext)

\* C1: a fetchImage call on a uri that fails validation or has no recognized image
\* extension is rejected and has issued no existence probe, no network fetch, no
\* unlink and no read or write of the mapping record.
C1_BadUriRejectedWithoutIo ==
    \A i \in FetchCalls :
        BadUri(tasks[i].uri) => tasks[i].status = "rejected" /\ tasks[i].ios = {}

\* C1 witness: a uri without image extension and a uri that fails validation have
\* both been handed to fetchImage and rejected.
C1_Witness ==
    \E i, j \in FetchCalls :
        /\ tasks[i].uri = UriTxt /\ tasks[i].status = "rejected"
        /\ tasks[j].uri = UriSpace /\ tasks[j].status = "rejected"

C3_OneFetchInFlightPerKey ==
    \A i, j \in TaskIds :
        (i # j /\ tasks[i].pc = "fetch" /\ tasks[j].pc = "fetch")
            => tasks[i].fileInfo # tasks[j].fileInfo

\* C4: once preloadImages has finished with an array, it has resolved, tried is the
\* array's length and downloaded the number of its uris whose operation resolved.
C4_BatchResolvesWithCounts ==
    \A b \in BatchIds :
        (batches[b].isArray /\ batches[b].pc \in {"setItem", "done"})
            => /\ batches[b].status = "resolved"
               /\ batches[b].tried = Len(batches[b].items)
               /\ batches[b].downloaded = Cardinality(Responses(tasks, b))

\* C5: in the step that completes clearExpiredImage(T), every entry it read that is
\* older than T days has no file and no entry in the stored table, and every other
\* entry it read is in the stored table unchanged, its file never unlinked by the
\* sweep.
C5_SweepRemovesExactlyExpired ==
    [][\A s \in SweepIds :
          (sweeps[s].pc = "setItem" /\ sweeps'[s].status = "resolved")
            => \A k \in 1..Len(sweeps[s].read) :
                 LET e == sweeps[s].read[k]
                     after == getCurrentCacheMappingFromAsyncStorage(store')
                 IN  IF Expired(e, sweeps[s].now, sweeps[s].expiredPeriod)
                     THEN /\ generateAbsolutePath(e.fileInfo) \notin disk'
                          /\ ~Has(after, e.uri)
                     ELSE /\ Has(after, e.uri)
                          /\ Get(after, e.uri) = e]_vars

\* C6: a clearExpiredImage call whose code has run to its end has settled.
C6_SweepSettles ==
    \A s \in SweepIds :
        sweeps[s].pc = "done" => sweeps[s].status \in {"resolved", "rejected"}

\* C7: when a call was rejected for a non-200 status or a transport error, and no
\* other call has fetched to the same path, no file is at that path.
C7_NoArtifactAfterFailedFetch ==
    \A i \in TaskIds :
        ( /\ tasks[i].status = "rejected"
          /\ tasks[i].res \in {"500", "error"}
          /\ \A j \in TaskIds \ {i} : ~(Fetched(tasks[j]) /\ PathOf(tasks[j]) = PathOf(tasks[i])) )
            => PathOf(tasks[i]) \notin disk

\* C8: a failed read or write of the mapping record rejects neither a preloadImages
\* call on an array nor a fetchImage call.
C8_StoreFailureNeverRejects ==
    /\ \A b \in BatchIds :
          (batches[b].isArray /\ batches[b].storeFailed) => batches[b].status # "rejected"
    /\ \A i \in FetchCalls : tasks[i].storeFailed => tasks[i].status = "resolved"

\* C9: a preloadImages call on a value that is not an array is rejected and has
\* started no per-uri operation and no read or write of the mapping record.
C9_NonArrayStartsNothing ==
    \A b \in BatchIds :
        (batches[b].pc # "idle" /\ ~batches[b].isArray)
            => /\ batches[b].status = "rejected"
               /\ BatchTasks(tasks, b) = {}
               /\ batches[b].ios = {}

\* C10: a fetchImage call whose probe has answered issued a network fetch exactly
\* when the probe did not find the file; when it found the file the call gave
\* {uri, path} to the callback and resolved with it (a callback that throws turns
\* that into a rejection, still without a fetch).  What the mapping table held at
\* the time plays no part.
C10_HitIffProbeFinds ==
    \A i \in FetchCalls :
        tasks[i].probe # "none"
            => /\ Fetched(tasks[i]) <=> tasks[i].probe # "true"
               /\ (tasks[i].probe = "true" /\ tasks[i].cb = "ok")
                     => tasks[i].status = "resolved" /\ tasks[i].value = "path"
               /\ (tasks[i].probe = "true" /\ tasks[i].cb = "throws")
                     => tasks[i].status = "rejected"

\* C10 witness: a call found no file although the table held an entry for its uri,
\* and fetched.
C10_Witness ==
    \E i \in FetchCalls :
        /\ tasks[i].probe = "false" /\ tasks[i].entryAtProbe /\ Fetched(tasks[i])

\* C11: in a preloadImages call on an array, every per-uri operation that resolved
\* has called the listener exactly once, with that uri's {uri, imagePath}, and every
\* one that was rejected has not called it; once the call has resolved no operation
\* of the batch is still to call it.
C11_ListenerOncePerSuccess ==
    \A b \in BatchIds : batches[b].isArray =>
        /\ \A i \in BatchTasks(tasks, b) :
              /\ tasks[i].status = "resolved" => tasks[i].cbArgs = <<UriImagePath(tasks[i])>>
              /\ tasks[i].status = "rejected" => tasks[i].cbArgs = <<>>
        /\ batches[b].status = "resolved"
              => \A i \in BatchTasks(tasks, b) : tasks[i].status # "pending"

\* the text of uri after its last '/', cut at its first '?'
AfterLastSlash(uri) ==
    LET slashes == {i \in 1..Len(uri) : uri[i] = "/"}
        rest == IF slashes = {} THEN uri
                ELSE SubSeq(uri, (CHOOSE i \in slashes : \A j \in slashes : j <= i) + 1,
                            Len(uri))
        marks == {i \in 1..Len(rest) : rest[i] = "?"}
    IN  IF marks = {} THEN rest
        ELSE SubSeq(rest, 1, (CHOOSE i \in marks : \A j \in marks : i <= j) - 1)
\* the extensions of s: the texts that run from its last '.' to its end
LastDotTexts(s) ==
    {SubSeq(s, k, Len(s)) : k \in {i \in 1..Len(s) :
                                     s[i] = "." /\ \A j \in (i+1)..Len(s) : s[j] # "."}}

\* C12: getImageInfo returns a key exactly when the uri is well formed and the text
\* after its last '/', cut at its first '?', has a '.' and runs from its last '.' to
\* its end as one of .jpg, .png, .jpeg, .gif; the key is hash(uri), '.', and that
\* extension without its dot, so its extension is one of jpg, png, jpeg, gif.
C12_KeyExactlyForImageUris ==
    call.pc = "return" =>
        LET exts == LastDotTexts(AfterLastSlash(call.uri)) \cap validImageExtensions
        IN  /\ call.key # Undefined <=> (isUri(call.uri) /\ exts # {})
            /\ call.key # Undefined =>
                  /\ call.key.hash = hash(call.uri)
                  /\ \E e \in exts : call.key.ext = Tail(e)
                  /\ call.key.ext \in { <<"j", "p", "g">>, <<"p", "n", "g">>,
                                        <<"j", "p", "e", "g">>, <<"g", "i", "f">> }

\* C12 witness: getImageInfo has returned a key for a uri with a query string.
C12_Witness ==
    /\ call.pc = "return" /\ call.key # Undefined
    /\ IndexOf(call.uri, "?") >= 0

\* no call is running and no unlink is waiting to run
Quiescent ==
    /\ \A i \in TaskIds : tasks[i].pc \in {"idle", "done"}
    /\ \A b \in BatchIds : batches[b].pc \in {"idle", "done"}
    /\ \A s \in SweepIds : sweeps[s].pc \in {"idle", "done"}
    /\ \A p \in Paths : unlinks[p] = 0
StoredTable == getCurrentCacheMappingFromAsyncStorage(store)

\* C13: whenever no operation is in flight, every entry of the stored mapping table
\* has its file in the cache directory.
C13_EveryEntryHasItsFile ==
    Quiescent =>
        \A k \in 1..Len(StoredTable) :
            generateAbsolutePath(StoredTable[k].fileInfo) \in disk

\* C14: a fetchImage call that ran with no other call running, with a callback that
\* returns, that missed, whose fetch answered 200 and whose reads and writes of the
\* mapping record succeeded, has called the callback with {uri, imagePath} and
\* resolved with it; in the step that ends the call the file is at that path and
\* the stored table has an entry for the uri whose fileInfo is the uri's key.
C14_LoneFetchLeavesFileAndEntry ==
    [][\A i \in FetchCalls :
          ( /\ tasks'[i].alone /\ tasks[i].cb = "ok"
            /\ tasks[i].probe \in {"false", "throw"} /\ tasks[i].res = "200"
            /\ tasks[i].pc # "done" /\ tasks'[i].pc = "done"
            /\ ~tasks'[i].storeFailed )
            => /\ tasks'[i].status = "resolved"
               /\ tasks'[i].cbArgs = <<UriImagePath(tasks[i])>>
               /\ PathOf(tasks[i]) \in disk'
               /\ LET after == getCurrentCacheMappingFromAsyncStorage(store')
                  IN  /\ Has(after, tasks[i].uri)
                      /\ Get(after, tasks[i].uri).fileInfo = getImageInfo(tasks[i].uri)]_vars

\* C15: a preloadImages call on an array that has gone past its wait for the batch
\* (it reads the table, has counted and merged, or has resolved or been rejected)
\* has no per-uri operation still pending, whatever failed in the batch.
C15_BatchWaitsForEveryOperation ==
    \A b \in BatchIds :
        ( /\ batches[b].isArray
          /\ \/ batches[b].pc \in {"getItem", "setItem", "done"}
             \/ batches[b].status \in {"resolved", "rejected"} )
            => \A i \in BatchTasks(tasks, b) : tasks[i].status # "pending"

\* C15 witness: a batch has resolved in which one uri failed and another was
\* downloaded.
C15_Witness ==
    \E b \in BatchIds :
        /\ batches[b].isArray /\ batches[b].status = "resolved"
        /\ \E i, j \in BatchTasks(tasks, b) :
              /\ tasks[i].status = "rejected"
              /\ tasks[j].status = "resolved" /\ Fetched(tasks[j])

\* C16: updates of the mapping table can be lost, and only to overlap.  The step in
\* which updateCacheMapping's setItem succeeds stores a table that holds the call's
\* own entry, and drops an entry the store held only when the call did not run
\* alone; the witness is the lost update itself.
C16_WriteDropsEntriesOnlyUnderOverlap ==
    [][\A i \in FetchCalls :
          (tasks[i].pc = "setItem" /\ tasks'[i].pc = "done" /\ ~tasks'[i].storeFailed)
            => LET before == getCurrentCacheMappingFromAsyncStorage(store)
                   after == getCurrentCacheMappingFromAsyncStorage(store')
               IN  /\ Has(after, tasks[i].uri)
                   /\ tasks[i].alone => Keys(before) \subseteq Keys(after)]_vars

\* C16 witness: two fetchImage calls for different uris have both resolved and both
\* written the table with success, no other call was ever made, and the stored
\* table lacks the entry of one of them.
C16_Witness ==
    /\ \A b \in BatchIds : batches[b].pc = "idle"
    /\ \A s \in SweepIds : sweeps[s].pc = "idle"
    /\ \E i, j \in FetchCalls :
          /\ tasks[i].uri # tasks[j].uri
          /\ \A k \in {i, j} : /\ tasks[k].status = "resolved" /\ tasks[k].pc = "done"
                               /\ "setItem" \in tasks[k].ios /\ ~tasks[k].storeFailed
          /\ ~Has(StoredTable, tasks[i].uri)
          /\ Has(StoredTable, tasks[j].uri)

\* the uris of batch b that were downloaded (fetched with status 200)
Downloaded(ts, b) == {ts[i].uri : i \in {j \in Responses(ts, b) : Fetched(ts[j])}}

\* C17: in the step in which a preloadImages call on an array has read the table
\* (the read succeeding), every operation of the batch has settled, the call issues
\* its one write, and the table it writes is the table it read with one entry
\* (the uri's key as fileInfo) for each uri downloaded in the batch, every other
\* entry of the table read being kept as it was.
C17_OneWriteOfReadTablePlusDownloads ==
    [][\A b \in BatchIds :
          ( /\ batches[b].isArray /\ ~batches'[b].storeFailed
            /\ batches[b].pc = "getItem" /\ batches'[b].pc # "getItem" )
            => LET read == getCurrentCacheMappingFromAsyncStorage(store)
                   written == batches'[b].local
               IN  /\ \A i \in BatchTasks(tasks, b) : tasks[i].status # "pending"
                   /\ batches'[b].pc = "setItem" /\ "setItem" \notin batches[b].ios
                   /\ Keys(written) = Keys(read) \cup Downloaded(tasks, b)
                   /\ \A u \in Downloaded(tasks, b) :
                         Get(written, u).fileInfo = getImageInfo(u)
                   /\ \A u \in Keys(read) \ Downloaded(tasks, b) :
                         Get(written, u) = Get(read, u)]_vars

\* C18: when every I/O operation issued is answered, every fetchImage call, every
\* per-uri operation of a batch and every preloadImages call that is pending is
\* settled later, whatever the answers are and whether or not the callback throws.
C18_CallsSettle ==
    /\ \A i \in TaskIds :
          (tasks[i].status = "pending") ~> (tasks[i].status \in {"resolved", "rejected"})
    /\ \A b \in BatchIds :
          (batches[b].status = "pending") ~> (batches[b].status \in {"resolved", "rejected"})

\* C18 witness: a fetchImage call whose callback threw has been rejected and a
\* preloadImages call on an array has run to its end and settled.
C18_Witness ==
    /\ \E i \in FetchCalls :
          /\ tasks[i].cb = "throws" /\ tasks[i].cbArgs # <<>>
          /\ tasks[i].status = "rejected"
    /\ \E b \in BatchIds :
          /\ batches[b].isArray /\ batches[b].pc = "done"
          /\ batches[b].status \in {"resolved", "rejected"}

\* C19: in a step in which a call's read of the record is answered (the read itself
\* succeeding) and the record is missing or does not parse, the call goes on as
\* from an empty table: updateCacheMapping writes a table of its one entry,
\* preloadImages merges into the empty table and resolves, and clearExpiredImage is
\* not rejected.
C19_MissingOrCorruptReadsAsEmpty ==
    [][(store.tag \in {"null", "corrupt"} /\ faults' = faults)
          => /\ \A i \in FetchCalls :
                  (tasks[i].pc = "getItem" /\ tasks'[i].pc # "getItem")
                    => /\ tasks'[i].pc = "setItem"
                       /\ Keys(tasks'[i].local) = {tasks[i].uri}
             /\ \A b \in BatchIds :
                  (batches[b].isArray /\ batches[b].pc = "getItem"
                                      /\ batches'[b].pc # "getItem")
                    => /\ batches'[b].status = "resolved"
                       /\ Keys(batches'[b].local) = {tasks[i].uri : i \in Responses(tasks, b)}
             /\ \A s \in SweepIds :
                  (sweeps[s].pc = "getItem" /\ sweeps'[s].pc # "getItem")
                    => sweeps'[s].status # "rejected"]_vars

\* C20: a fetchImage call whose existence probe threw has gone on to the network
\* fetch; it is pending until the fetch answers, it calls the callback and resolves
\* only after a fetch that answered 200, and it is rejected only for a failed
\* fetch or a callback that threw after the download.
C20_ProbeErrorGoesToFetch ==
    \A i \in FetchCalls :
        tasks[i].probe = "throw"
            => /\ Fetched(tasks[i])
               /\ tasks[i].res = "none" => tasks[i].status = "pending"
               /\ (tasks[i].status = "resolved" \/ tasks[i].cbArgs # <<>>)
                     => tasks[i].res = "200"
               /\ tasks[i].status = "rejected"
                     => \/ tasks[i].res \in {"500", "error"}
                        \/ tasks[i].res = "200" /\ tasks[i].cb = "throws"

\* C20 witness: a call whose probe threw has downloaded the image and resolved.
C20_Witness ==
    \E i \in FetchCalls :
        /\ tasks[i].probe = "throw" /\ tasks[i].res = "200"
        /\ tasks[i].status = "resolved"

\* C21: every entry of the stored mapping table has, as its fileInfo, the cache key
\* of the uri it is stored under, and a created stamp.
C21_EntriesWellFormed ==
    \A k \in 1..Len(StoredTable) :
        /\ StoredTable[k].fileInfo # Undefined
        /\ StoredTable[k].fileInfo = getImageInfo(StoredTable[k].uri)
        /\ StoredTable[k].created \in 0..(MaxDays * MsPerDay)

\* C22: no step changes the created stamp of an entry that the stored table holds
\* before and after it while the uri's file is in the cache directory.
C22_CreatedStampKept ==
    [][LET before == getCurrentCacheMappingFromAsyncStorage(store)
           after == getCurrentCacheMappingFromAsyncStorage(store')
       IN  \A u \in Keys(before) \cap Keys(after) :
               ( /\ generateAbsolutePath(getImageInfo(u)) \in disk
                 /\ generateAbsolutePath(getImageInfo(u)) \in disk' )
                 => Get(after, u).created = Get(before, u).created]_vars

\* C23: when a fetchImage call has resolved, clearExpiredImage was never called,
\* every operation for the same file has settled and no unlink of that file is
\* still to run, the file is in the cache directory.
C23_CleanupSparesResolvedFile ==
    \A i \in FetchCalls :
        ( /\ tasks[i].status = "resolved"
          /\ \A s \in SweepIds : sweeps[s].pc = "idle"
          /\ \A j \in TaskIds :
                (tasks[j].pc # "idle" /\ tasks[j].fileInfo = tasks[i].fileInfo)
                    => tasks[j].status \in {"resolved", "rejected"}
          /\ unlinks[PathOf(tasks[i])] = 0 )
            => PathOf(tasks[i]) \in disk

\* C24: a fetchImage call or per-uri preload operation whose probe found the file
\* issues no unlink of it and no fetch over it, whether or not the callback throws.
C24_HitLeavesFileAlone ==
    \A i \in TaskIds :
        tasks[i].probe = "true"
            => /\ "unlink" \notin tasks[i].ios
               /\ ~Fetched(tasks[i])

\* the effect of the uri the component shows now
LatestEffect(v) == v.effects[Len(v.effects)]

\* C25: a step in which the fetchImage of an earlier uri settles, or one that
\* settles after the component was removed, leaves the displayed source as it was;
\* and a component that shows the fallback is one whose latest uri's fetch was
\* rejected.
C25_StaleOutcomeIgnored ==
    [][/\ \A k \in 1..Len(view.effects) :
             ( /\ view.effects[k].status = "pending"
               /\ view'.effects[k].status # "pending"
               /\ k < Len(view.effects) \/ ~view.mounted )
               => view'.source = view.source
       /\ (view'.mounted /\ view'.source = Fallback)
             => LatestEffect(view').status = "rejected"]_vars

====
